---- MODULE Spec2Model ----
(***************************************************************************)
(* Model of SpotifyConnector (src/SpotifyAPI.py).                          *)
(*                                                                         *)
(* Text (Python str) is a sequence of one-character strings, bytes are a   *)
(* sequence of integers 0..255.  Each caller thread owns one call frame;   *)
(* the HTTP collaborator (requests.post / requests.get) is the             *)
(* environment: a request is issued in one step and its outcome (a         *)
(* response, or a transport failure) arrives in a later step, so calls of  *)
(* several threads interleave at the two network round trips.              *)
(***************************************************************************)
EXTENDS Integers, Sequences, FiniteSets, TLC

VARIABLES app_id, app_secret, ctor, frame, ncalls, posts, findDone

vars == <<app_id, app_secret, ctor, frame, ncalls, posts, findDone>>

(* ---------------------------------------------------------------- bounds *)
MaxCalls == 3

Threads == {1, 2}

(* ------------------------------------------------------------- constants *)
BASE_TOKEN_URL ==
    <<"h", "t", "t", "p", "s", ":", "/", "/", "a", "c", "c", "o", "u", "n",
      "t", "s", ".", "s", "p", "o", "t", "i", "f", "y", ".", "c", "o", "m",
      "/", "a", "p", "i", "/", "t", "o", "k", "e", "n">>

BASE_API_URL ==
    <<"h", "t", "t", "p", "s", ":", "/", "/", "a", "p", "i", ".", "s", "p",
      "o", "t", "i", "f", "y", ".", "c", "o", "m", "/", "v", "1", "/">>

(* ------------------------------------------------------ Python values *)
PyNone == [kind |-> "None", chars |-> <<>>]

PyStr(s) == [kind |-> "str", chars |-> s]

(* str(x) as used by an f-string replacement field *)
Format(v) == IF v.kind = "None" THEN <<"N", "o", "n", "e">> ELSE v.chars

(* code points of the characters credentials are drawn from *)
Ord(c) ==
    CASE c = "k" -> 107
      [] c = "s" -> 115
      [] c = ":" -> 58
      [] c = "é" -> 233

(* str.encode(): UTF-8 *)
RECURSIVE StrEncode(_)
StrEncode(s) ==
    IF s = <<>> THEN <<>>
    ELSE LET cp == Ord(Head(s))
         IN  (IF cp < 128 THEN <<cp>>
              ELSE <<192 + (cp \div 64), 128 + (cp % 64)>>)
             \o StrEncode(Tail(s))

(* the ASCII code of the base64 digit with value i *)
B64Code(i) ==
    IF i < 26 THEN 65 + i
    ELSE IF i < 52 THEN 97 + (i - 26)
    ELSE IF i < 62 THEN 48 + (i - 52)
    ELSE IF i = 62 THEN 43 ELSE 47

(* base64.b64encode(): bytes -> bytes, '=' (61) padded *)
RECURSIVE b64encode(_)
b64encode(bs) ==
    IF Len(bs) = 0 THEN <<>>
    ELSE IF Len(bs) = 1 THEN
        <<B64Code(bs[1] \div 4), B64Code((bs[1] % 4) * 16), 61, 61>>
    ELSE IF Len(bs) = 2 THEN
        <<B64Code(bs[1] \div 4),
          B64Code((bs[1] % 4) * 16 + (bs[2] \div 16)),
          B64Code((bs[2] % 16) * 4), 61>>
    ELSE
        <<B64Code(bs[1] \div 4),
          B64Code((bs[1] % 4) * 16 + (bs[2] \div 16)),
          B64Code((bs[2] % 16) * 4 + (bs[3] \div 64)),
          B64Code(bs[3] % 64)>>
        \o b64encode(SubSeq(bs, 4, Len(bs)))

Upper ==
    <<"A", "B", "C", "D", "E", "F", "G", "H", "I", "J", "K", "L", "M", "N",
      "O", "P", "Q", "R", "S", "T", "U", "V", "W", "X", "Y", "Z">>

Lower ==
    <<"a", "b", "c", "d", "e", "f", "g", "h", "i", "j", "k", "l", "m", "n",
      "o", "p", "q", "r", "s", "t", "u", "v", "w", "x", "y", "z">>

Digits == <<"0", "1", "2", "3", "4", "5", "6", "7", "8", "9">>

(* the character of an ASCII code of the base64 alphabet *)
Chr(b) ==
    IF b = 61 THEN "="
    ELSE IF b = 43 THEN "+"
    ELSE IF b = 47 THEN "/"
    ELSE IF b < 58 THEN Digits[b - 47]
    ELSE IF b < 91 THEN Upper[b - 64]
    ELSE Lower[b - 96]

(* bytes.decode() of ASCII bytes *)
BytesDecode(bs) == [i \in 1..Len(bs) |-> Chr(bs[i])]

(* ------------------------------------------------------------- requests *)
NoData == <<>>

(* variant: the pair joined the other way round *)
TokenRequest_swapped(id, secret) ==
    LET credentials  == secret \o <<":">> \o id
        encoded_creds == b64encode(StrEncode(credentials))
    IN  [method |-> "POST",
         url |-> BASE_TOKEN_URL,
         data |-> << <<"grant_type", "client_credentials">> >>,
         auth |-> <<"B", "a", "s", "i", "c", " ">> \o BytesDecode(encoded_creds)]

(* lines 46-55: the token request built from the stored credentials *)
TokenRequest(id, secret) ==
    LET credentials  == id \o <<":">> \o secret
        encoded_creds == b64encode(StrEncode(credentials))
    IN  [method |-> "POST",
         url |-> BASE_TOKEN_URL,
         data |-> << <<"grant_type", "client_credentials">> >>,
         auth |-> <<"B", "a", "s", "i", "c", " ">> \o BytesDecode(encoded_creds)]

(* variant: f"Bearer{token}" *)
BearerHeader_nospace(token) == <<"B", "e", "a", "r", "e", "r">> \o Format(token)

(* lines 75-77 *)
BearerHeader(token) == <<"B", "e", "a", "r", "e", "r", " ">> \o Format(token)

(* variant: the term percent-encoded before interpolation *)
RECURSIVE Quote(_)
Quote(s) ==
    IF s = <<>> THEN <<>>
    ELSE (IF Head(s) = " " THEN <<"%", "2", "0">>
          ELSE IF Head(s) = "&" THEN <<"%", "2", "6">>
          ELSE <<Head(s)>>) \o Quote(Tail(s))

SearchEndpoint_quoted(term, kind) ==
    BASE_API_URL \o <<"s", "e", "a", "r", "c", "h", "?", "q", "=">> \o Quote(term)
                 \o <<"&", "t", "y", "p", "e", "=">> \o kind

(* line 78 *)
SearchEndpoint(term, kind) ==
    BASE_API_URL \o <<"s", "e", "a", "r", "c", "h", "?", "q", "=">> \o term
                 \o <<"&", "t", "y", "p", "e", "=">> \o kind

(* line 58: the default of the keyword parameter *)
BindKind(args) ==
    IF args.hasKind THEN args.kind ELSE <<"t", "r", "a", "c", "k">>

SearchRequest(term, kind, token) ==
    [method |-> "GET",
     url |-> SearchEndpoint(term, kind),
     data |-> NoData,
     auth |-> BearerHeader(token)]

(* ------------------------------------------------------------ responses *)
(* What Response.json() gives: a dict (its items), a list, or a decode     *)
(* failure ("invalid").                                                    *)
Json(kind, items) == [kind |-> kind, items |-> items]

NoJson == Json("none", <<>>)

Response(status, json) == [status |-> status, json |-> json]

NoResponse == Response(0, NoJson)

T1 == <<"T", "1">>

T2 == <<"T", "2">>

TokenResponses ==
    { Response(200, Json("dict", << <<"access_token", PyStr(T1)>> >>)),
      Response(200, Json("dict", << <<"token_type", PyStr(<<"B">>)>>,
                                    <<"access_token", PyStr(T2)>> >>)),
      Response(400, Json("dict", << <<"error", PyStr(<<"i", "c">>)>> >>)),
      Response(200, Json("list", <<>>)),
      Response(502, Json("invalid", <<>>)) }

SearchResponses ==
    { Response(200, Json("dict", << <<"tracks", PyStr(<<"x">>)>> >>)),
      Response(401, Json("dict", << <<"error", PyStr(<<"4", "0", "1">>)>> >>)),
      Response(200, Json("list", <<>>)),
      Response(500, Json("invalid", <<>>)) }

(* dict.get(key, default) *)
RECURSIVE DictGet(_, _, _)
DictGet(items, key, default) ==
    IF items = <<>> THEN default
    ELSE IF items[Len(items)][1] = key THEN items[Len(items)][2]
    ELSE DictGet(SubSeq(items, 1, Len(items) - 1), key, default)

(* variant: response.json()['access_token'] *)
ExtractToken_subscript(resp) ==
    IF resp.json.kind = "invalid" THEN [exc |-> "JSONDecodeError", val |-> PyNone]
    ELSE IF resp.json.kind # "dict" THEN [exc |-> "TypeError", val |-> PyNone]
    ELSE IF \A i \in 1..Len(resp.json.items) : resp.json.items[i][1] # "access_token"
         THEN [exc |-> "KeyError", val |-> PyNone]
    ELSE [exc |-> "", val |-> DictGet(resp.json.items, "access_token", PyNone)]

(* line 56: response.json().get('access_token', None) *)
ExtractToken(resp) ==
    IF resp.json.kind = "invalid" THEN [exc |-> "JSONDecodeError", val |-> PyNone]
    ELSE IF resp.json.kind # "dict" THEN [exc |-> "AttributeError", val |-> PyNone]
    ELSE [exc |-> "", val |-> DictGet(resp.json.items, "access_token", PyNone)]

(* variant: result.raise_for_status() before result.json() *)
ParseResult_raise_for_status(resp) ==
    IF resp.status >= 400 THEN [exc |-> "HTTPError", val |-> NoJson]
    ELSE IF resp.json.kind = "invalid" THEN [exc |-> "JSONDecodeError", val |-> NoJson]
    ELSE [exc |-> "", val |-> resp.json]

(* line 80: result.json() *)
ParseResult(resp) ==
    IF resp.json.kind = "invalid" THEN [exc |-> "JSONDecodeError", val |-> NoJson]
    ELSE [exc |-> "", val |-> resp.json]

(* --------------------------------------------------------------- inputs *)
Identifiers == { <<>>, <<"k">>, <<"é", ":">> }

Secrets == { <<"s">>, <<"é">>, <<"s", "s">> }

FindArgs ==
    { [term |-> <<"k", " ", "s">>, hasKind |-> TRUE,
       kind |-> <<"a", "r", "t", "i", "s", "t">>],
      [term |-> <<"k", "&", "s">>, hasKind |-> FALSE, kind |-> <<>>],
      [term |-> <<"k", " ", "s">>, hasKind |-> TRUE, kind |-> <<"z">>] }

NoArgs == [term |-> <<>>, hasKind |-> FALSE, kind |-> <<>>]

(* ---------------------------------------------------------------- state *)
IdleFrame ==
    [op |-> "none", pc |-> "idle", args |-> NoArgs, term |-> <<>>,
     kind |-> <<>>, reqs |-> <<>>, tokenResp |-> NoResponse,
     token |-> PyNone, searchResp |-> NoResponse, result |-> NoJson,
     exc |-> "", stage |-> ""]

Free(f) == f.pc \in {"idle", "done", "raised"}

(* __init__, lines 41-42 *)
Init ==
    /\ \E id \in Identifiers, secret \in Secrets :
          /\ app_id = id
          /\ app_secret = secret
          /\ ctor = [app_id |-> id, app_secret |-> secret]
    /\ frame = [t \in Threads |-> IdleFrame]
    /\ ncalls = 0
    /\ posts = 0
    /\ findDone = 0

(* variant: the token of the thread's previous completed call is reused *)
CallFind_cached(t, args) ==
    LET old == frame[t]
        reuse == old.op = "find" /\ old.pc = "done" /\ old.token.kind = "str"
    IN  /\ Free(old)
        /\ ncalls < MaxCalls
        /\ frame' = [frame EXCEPT ![t] =
              IF reuse THEN
                  [IdleFrame EXCEPT !.op = "find", !.pc = "search_wait",
                                    !.args = args, !.term = args.term,
                                    !.kind = BindKind(args),
                                    !.tokenResp = old.tokenResp,
                                    !.token = old.token,
                                    !.reqs = <<SearchRequest(args.term, BindKind(args),
                                                             old.token)>>]
              ELSE
                  [IdleFrame EXCEPT !.op = "find", !.pc = "token_wait",
                                    !.args = args, !.term = args.term,
                                    !.kind = BindKind(args),
                                    !.reqs = <<TokenRequest(app_id, app_secret)>>]]
        /\ ncalls' = ncalls + 1
        /\ posts' = IF reuse THEN posts ELSE posts + 1
        /\ UNCHANGED <<app_id, app_secret, ctor, findDone>>

(* find(term, kind) entered; runs into _generate_auth_token up to the      *)
(* requests.post call of line 55                                           *)
CallFind(t, args) ==
    /\ Free(frame[t])
    /\ ncalls < MaxCalls
    /\ frame' = [frame EXCEPT ![t] =
                    [IdleFrame EXCEPT !.op = "find", !.pc = "token_wait",
                                      !.args = args, !.term = args.term,
                                      !.kind = BindKind(args),
                                      !.reqs = <<TokenRequest(app_id, app_secret)>>]]
    /\ ncalls' = ncalls + 1
    /\ posts' = posts + 1
    /\ UNCHANGED <<app_id, app_secret, ctor, findDone>>

(* _generate_auth_token() called directly, up to line 55 *)
CallGenerateAuthToken(t) ==
    /\ Free(frame[t])
    /\ ncalls < MaxCalls
    /\ frame' = [frame EXCEPT ![t] =
                    [IdleFrame EXCEPT !.op = "token", !.pc = "token_wait",
                                      !.reqs = <<TokenRequest(app_id, app_secret)>>]]
    /\ ncalls' = ncalls + 1
    /\ posts' = posts + 1
    /\ UNCHANGED <<app_id, app_secret, ctor, findDone>>

(* variant: find raises when no token was obtained *)
TokenReturns_failfast(t, resp) ==
    LET f   == frame[t]
        out == ExtractToken(resp)
    IN  /\ f.pc = "token_wait"
        /\ frame' = [frame EXCEPT ![t] =
              IF out.exc # "" THEN
                  [f EXCEPT !.pc = "raised", !.exc = out.exc,
                            !.stage = "token", !.tokenResp = resp]
              ELSE IF f.op = "token" THEN
                  [f EXCEPT !.pc = "done", !.tokenResp = resp, !.token = out.val]
              ELSE IF out.val = PyNone THEN
                  [f EXCEPT !.pc = "raised", !.exc = "RuntimeError",
                            !.stage = "find", !.tokenResp = resp]
              ELSE
                  [f EXCEPT !.pc = "search_wait", !.tokenResp = resp,
                            !.token = out.val,
                            !.reqs = Append(f.reqs,
                                       SearchRequest(f.term, f.kind, out.val))]]
        /\ UNCHANGED <<app_id, app_secret, ctor, ncalls, posts, findDone>>

(* variant: the token is kept in a slot shared by all calls, and a call     *)
(* that finds the slot filled by another call in progress sends that token *)
TokenReturns_shared(t, resp) ==
    LET f   == frame[t]
        out == ExtractToken(resp)
        others == { u \in Threads : u # t /\ frame[u].op = "find"
                                     /\ frame[u].pc = "search_wait"
                                     /\ frame[u].token.kind = "str" }
        sent == IF others # {} THEN frame[CHOOSE u \in others : TRUE].token
                ELSE out.val
    IN  /\ f.pc = "token_wait"
        /\ frame' = [frame EXCEPT ![t] =
              IF out.exc # "" THEN
                  [f EXCEPT !.pc = "raised", !.exc = out.exc,
                            !.stage = "token", !.tokenResp = resp]
              ELSE IF f.op = "token" THEN
                  [f EXCEPT !.pc = "done", !.tokenResp = resp, !.token = out.val]
              ELSE
                  [f EXCEPT !.pc = "search_wait", !.tokenResp = resp,
                            !.token = out.val,
                            !.reqs = Append(f.reqs,
                                       SearchRequest(f.term, f.kind, sent))]]
        /\ UNCHANGED <<app_id, app_secret, ctor, ncalls, posts, findDone>>

(* requests.post returns resp: line 56, and for find lines 74-79 up to     *)
(* the requests.get call                                                   *)
TokenReturns(t, resp) ==
    LET f   == frame[t]
        out == ExtractToken(resp)
    IN  /\ f.pc = "token_wait"
        /\ frame' = [frame EXCEPT ![t] =
              IF out.exc # "" THEN
                  [f EXCEPT !.pc = "raised", !.exc = out.exc,
                            !.stage = "token", !.tokenResp = resp]
              ELSE IF f.op = "token" THEN
                  [f EXCEPT !.pc = "done", !.tokenResp = resp, !.token = out.val]
              ELSE
                  [f EXCEPT !.pc = "search_wait", !.tokenResp = resp,
                            !.token = out.val,
                            !.reqs = Append(f.reqs,
                                       SearchRequest(f.term, f.kind, out.val))]]
        /\ UNCHANGED <<app_id, app_secret, ctor, ncalls, posts, findDone>>

(* variant: find catches the failure and goes on without a token *)
TokenPostFails_swallow(t) ==
    LET f == frame[t]
    IN  /\ f.pc = "token_wait"
        /\ frame' = [frame EXCEPT ![t] =
              IF f.op = "find" THEN
                  [f EXCEPT !.pc = "search_wait", !.token = PyNone,
                            !.reqs = Append(f.reqs,
                                       SearchRequest(f.term, f.kind, PyNone))]
              ELSE
                  [f EXCEPT !.pc = "raised", !.exc = "ConnectionError",
                            !.stage = "token"]]
        /\ UNCHANGED <<app_id, app_secret, ctor, ncalls, posts, findDone>>

(* requests.post raises (transport failure): nothing catches it *)
TokenPostFails(t) ==
    LET f == frame[t]
    IN  /\ f.pc = "token_wait"
        /\ frame' = [frame EXCEPT ![t] =
                        [f EXCEPT !.pc = "raised", !.exc = "ConnectionError",
                                  !.stage = "token"]]
        /\ UNCHANGED <<app_id, app_secret, ctor, ncalls, posts, findDone>>

(* variant: the GET is sent again when the status is not a success *)
SearchReturns_retry(t, resp) ==
    LET f   == frame[t]
        out == ParseResult(resp)
        again == resp.status >= 400 /\ Len(f.reqs) < 3
    IN  /\ f.pc = "search_wait"
        /\ frame' = [frame EXCEPT ![t] =
              IF again THEN
                  [f EXCEPT !.reqs = Append(f.reqs,
                                       SearchRequest(f.term, f.kind, f.token))]
              ELSE IF out.exc # "" THEN
                  [f EXCEPT !.pc = "raised", !.exc = out.exc,
                            !.stage = "search", !.searchResp = resp]
              ELSE
                  [f EXCEPT !.pc = "done", !.searchResp = resp,
                            !.result = out.val]]
        /\ findDone' = IF ~again /\ out.exc = "" THEN findDone + 1 ELSE findDone
        /\ UNCHANGED <<app_id, app_secret, ctor, ncalls, posts>>

(* requests.get returns resp: line 80 *)
SearchReturns(t, resp) ==
    LET f   == frame[t]
        out == ParseResult(resp)
    IN  /\ f.pc = "search_wait"
        /\ frame' = [frame EXCEPT ![t] =
              IF out.exc # "" THEN
                  [f EXCEPT !.pc = "raised", !.exc = out.exc,
                            !.stage = "search", !.searchResp = resp]
              ELSE
                  [f EXCEPT !.pc = "done", !.searchResp = resp,
                            !.result = out.val]]
        /\ findDone' = IF out.exc = "" THEN findDone + 1 ELSE findDone
        /\ UNCHANGED <<app_id, app_secret, ctor, ncalls, posts>>

(* requests.get raises (transport failure) *)
SearchGetFails(t) ==
    LET f == frame[t]
    IN  /\ f.pc = "search_wait"
        /\ frame' = [frame EXCEPT ![t] =
                        [f EXCEPT !.pc = "raised", !.exc = "ConnectionError",
                                  !.stage = "search"]]
        /\ UNCHANGED <<app_id, app_secret, ctor, ncalls, posts, findDone>>

Next ==
    \E t \in Threads :
        \/ \E args \in FindArgs : CallFind(t, args)
        \/ CallGenerateAuthToken(t)
        \/ \E resp \in TokenResponses : TokenReturns(t, resp)
        \/ TokenPostFails(t)
        \/ \E resp \in SearchResponses : SearchReturns(t, resp)
        \/ SearchGetFails(t)

Spec == Init /\ [][Next]_vars

(* ------------------------------------------------- vocabulary of claims *)
FindFrames == { t \in Threads : frame[t].op = "find" }

TokenReceived(f) == f.tokenResp # NoResponse

SearchIssued(f) == f.op = "find" /\ Len(f.reqs) >= 2

CountMethod(reqs, m) == Cardinality({ i \in 1..Len(reqs) : reqs[i].method = m })

IsPrefix(p, s) == Len(p) <= Len(s) /\ SubSeq(s, 1, Len(p)) = p

HasField(json, key) ==
    json.kind = "dict" /\ \E i \in 1..Len(json.items) : json.items[i][1] = key

FieldOf(json, key) ==
    json.items[CHOOSE i \in 1..Len(json.items) : json.items[i][1] = key][2]

(* the value a token response carries for the caller: its access_token, or *)
(* nothing                                                                  *)
Granted(resp) ==
    IF HasField(resp.json, "access_token")
    THEN FieldOf(resp.json, "access_token") ELSE PyNone

CredentialsKept == app_id = ctor.app_id /\ app_secret = ctor.app_secret

(* C1: every find call sends first one POST to the token endpoint and then,
   only after that POST's response has arrived, one GET to the search
   endpoint; a completed call has sent exactly these two requests. *)
C1_TwoRequestsInOrder ==
    \A t \in FindFrames :
        LET f == frame[t]
        IN  /\ Len(f.reqs) \in {1, 2}
            /\ f.reqs[1].method = "POST" /\ f.reqs[1].url = BASE_TOKEN_URL
            /\ Len(f.reqs) = 2 =>
                  /\ f.reqs[2].method = "GET"
                  /\ IsPrefix(BASE_API_URL \o <<"s", "e", "a", "r", "c", "h">>,
                              f.reqs[2].url)
                  /\ TokenReceived(f)
            /\ f.pc \in {"done", "search_wait"} => Len(f.reqs) = 2
            /\ f.pc = "token_wait" => Len(f.reqs) = 1

C1_Witness ==
    \E t \in FindFrames :
        /\ frame[t].pc = "done"
        /\ frame[t].searchResp.status = 401
        /\ Len(frame[t].reqs) = 2

(* C2: the Authorization header of a find call's GET is 'Bearer ' followed
   by the value the token response of that same call granted. *)
C2_BearerIsOwnToken ==
    \A t \in Threads :
        SearchIssued(frame[t]) =>
            /\ frame[t].reqs[2].auth =
                  <<"B", "e", "a", "r", "e", "r", " ">>
                     \o Format(Granted(frame[t].tokenResp))
            /\ frame[t].token = Granted(frame[t].tokenResp)

C2_Witness ==
    \E t \in Threads :
        /\ SearchIssued(frame[t])
        /\ frame[t].reqs[2].auth = <<"B", "e", "a", "r", "e", "r", " ", "T", "2">>
        /\ ncalls >= 2

(* C3: every call issues its own token POST: the number of token POSTs
   equals the number of calls made, so n completed find calls (and nothing
   else) have issued exactly n token POSTs, one inside each. *)
C3_OneTokenPostPerCall ==
    /\ posts = ncalls
    /\ findDone = ncalls => posts = findDone
    /\ \A t \in FindFrames : CountMethod(frame[t].reqs, "POST") = 1

C3_Witness ==
    /\ findDone >= 2
    /\ findDone = ncalls
    /\ \E t \in FindFrames : frame[t].pc = "done" /\ frame[t].token.kind = "str"

(* C4 as stated: whenever the token response body has no access_token
   field the call returns an absent value and does not raise; when it has
   access_token = T the call returns T. *)
C4_Original ==
    \A t \in Threads :
        TokenReceived(frame[t]) =>
            /\ frame[t].stage # "token"
            /\ frame[t].token = Granted(frame[t].tokenResp)

(* C4 amended: for a token response body that is a JSON object,
   _generate_auth_token returns T when the object has access_token = T and
   an absent value, without raising, when it has no such field. *)
C4_ObjectBodies ==
    \A t \in Threads :
        (TokenReceived(frame[t]) /\ frame[t].tokenResp.json.kind = "dict") =>
            /\ frame[t].stage # "token"
            /\ frame[t].token = Granted(frame[t].tokenResp)
            /\ frame[t].op = "token" => frame[t].pc = "done"

C4_Witness ==
    \E t, u \in Threads :
        /\ frame[t].op = "token" /\ frame[t].pc = "done"
        /\ frame[t].tokenResp.status = 400 /\ frame[t].token = PyNone
        /\ frame[u].op = "token" /\ frame[u].pc = "done"
        /\ frame[u].token = PyStr(T2)

(* C5: when the token response grants nothing, find still issues the GET,
   with the header 'Bearer None', and ends the way the search request ends:
   it returns the response body, and raises only what the search request
   itself raises. *)
C5_AbsentTokenProceeds ==
    \A t \in FindFrames :
        LET f == frame[t]
        IN  (TokenReceived(f) /\ f.tokenResp.json.kind = "dict"
                /\ ~HasField(f.tokenResp.json, "access_token")) =>
            /\ f.pc \in {"search_wait", "done", "raised"}
            /\ Len(f.reqs) = 2 /\ f.reqs[2].method = "GET"
            /\ f.reqs[2].auth =
                  <<"B", "e", "a", "r", "e", "r", " ", "N", "o", "n", "e">>
            /\ f.pc = "raised" => f.stage = "search"
            /\ f.pc = "done" => f.result = f.searchResp.json

C5_Witness ==
    \E t \in FindFrames :
        /\ frame[t].tokenResp.status = 400
        /\ frame[t].pc = "done"
        /\ frame[t].searchResp.status = 401
        /\ frame[t].result = frame[t].searchResp.json
(* ---- reading a Basic credential back: base64 digits -> bytes -> text *)
B64Value(c) ==
    IF \E i \in 1..26 : Upper[i] = c THEN (CHOOSE i \in 1..26 : Upper[i] = c) - 1
    ELSE IF \E i \in 1..26 : Lower[i] = c THEN (CHOOSE i \in 1..26 : Lower[i] = c) + 25
    ELSE IF \E i \in 1..10 : Digits[i] = c THEN (CHOOSE i \in 1..10 : Digits[i] = c) + 51
    ELSE IF c = "+" THEN 62
    ELSE IF c = "/" THEN 63
    ELSE 0 - 1

RECURSIVE B64Bytes(_)
B64Bytes(cs) ==
    IF Len(cs) < 4 THEN <<>>
    ELSE LET a == B64Value(cs[1])
             b == B64Value(cs[2])
             c == B64Value(cs[3])
             d == B64Value(cs[4])
             b1 == a * 4 + (b \div 16)
             b2 == (b % 16) * 16 + (c \div 4)
             b3 == (c % 4) * 64 + d
         IN  IF cs[3] = "=" THEN <<b1>>
             ELSE IF cs[4] = "=" THEN <<b1, b2>>
             ELSE <<b1, b2, b3>> \o B64Bytes(SubSeq(cs, 5, Len(cs)))

(* a canonical base64 text: whole quanta of digits, '=' only at the end *)
WellFormedB64(cs) ==
    /\ Len(cs) % 4 = 0
    /\ \A i \in 1..Len(cs) :
          \/ B64Value(cs[i]) >= 0
          \/ cs[i] = "=" /\ i >= Len(cs) - 1 /\ (i = Len(cs) \/ cs[Len(cs)] = "=")

CodePoints(s) == [i \in 1..Len(s) |-> Ord(s[i])]

RECURSIVE Utf8CodePoints(_)
Utf8CodePoints(bs) ==
    IF bs = <<>> THEN <<>>
    ELSE IF bs[1] < 128 THEN <<bs[1]>> \o Utf8CodePoints(Tail(bs))
    ELSE IF Len(bs) >= 2 /\ bs[1] >= 192 /\ bs[1] < 224 /\ bs[2] >= 128 /\ bs[2] < 192
         THEN <<(bs[1] - 192) * 64 + (bs[2] - 128)>> \o Utf8CodePoints(SubSeq(bs, 3, Len(bs)))
    ELSE <<0 - 1>>

BasicPrefix == <<"B", "a", "s", "i", "c", " ">>

(* C6: every call's token request is one POST to the token endpoint with
   body grant_type=client_credentials and the header 'Basic ' + base64 of
   identifier ':' secret, for the pair given at construction; the stored
   credentials never change. *)
C6_BasicAuthOfConstructionPair ==
    /\ CredentialsKept
    /\ \A t \in Threads :
          frame[t].op # "none" =>
             LET r == frame[t].reqs[1]
                 b64 == SubSeq(r.auth, Len(BasicPrefix) + 1, Len(r.auth))
             IN  /\ r.method = "POST" /\ r.url = BASE_TOKEN_URL
                 /\ r.data = << <<"grant_type", "client_credentials">> >>
                 /\ CountMethod(frame[t].reqs, "POST") = 1
                 /\ IsPrefix(BasicPrefix, r.auth)
                 /\ WellFormedB64(b64)
                 /\ Utf8CodePoints(B64Bytes(b64)) =
                       CodePoints(ctor.app_id \o <<":">> \o ctor.app_secret)
                 /\ (ctor.app_id = <<"k">> /\ ctor.app_secret = <<"é">>) =>
                       b64 = <<"a", "z", "r", "D", "q", "Q", "=", "=">>

C6_Witness ==
    /\ ctor = [app_id |-> <<"é", ":">>, app_secret |-> <<"s">>]
    /\ ncalls = MaxCalls
    /\ \E t \in Threads :
          /\ frame[t].op = "token"
          /\ frame[t].reqs[1].auth =
                BasicPrefix \o <<"w", "6", "k", "6", "O", "n", "M", "=">>

(* C7: find returns the parsed JSON body of its search response unchanged
   whenever that body parses, whatever the HTTP status of the response. *)
C7_ResultIsParsedBody ==
    \A t \in FindFrames :
        LET f == frame[t]
        IN  (f.searchResp # NoResponse /\ f.searchResp.json.kind # "invalid") =>
                /\ f.pc = "done"
                /\ f.exc = ""
                /\ f.result = f.searchResp.json

C7_Witness ==
    \E t, u \in FindFrames :
        /\ frame[t].pc = "done" /\ frame[t].searchResp.status = 401
        /\ HasField(frame[t].result, "error")
        /\ frame[u].pc = "done" /\ frame[u].searchResp.status = 200
        /\ HasField(frame[u].result, "tracks")

(* C8: the GET goes to the base API URL followed by
   'search?q=<term>&type=<kind>' with term and kind exactly as passed, and
   with 'track' as the kind when none was passed. *)
C8_SearchUrlVerbatim ==
    \A t \in Threads :
        SearchIssued(frame[t]) =>
            LET a == frame[t].args
            IN  frame[t].reqs[2].url =
                    <<"h", "t", "t", "p", "s", ":", "/", "/", "a", "p", "i",
                      ".", "s", "p", "o", "t", "i", "f", "y", ".", "c", "o",
                      "m", "/", "v", "1", "/", "s", "e", "a", "r", "c", "h",
                      "?", "q", "=">>
                    \o a.term \o <<"&", "t", "y", "p", "e", "=">>
                    \o (IF a.hasKind THEN a.kind ELSE <<"t", "r", "a", "c", "k">>)

C8_Witness ==
    \E t, u \in Threads :
        /\ SearchIssued(frame[t]) /\ ~frame[t].args.hasKind
        /\ frame[t].args.term = <<"k", "&", "s">>
        /\ SearchIssued(frame[u]) /\ frame[u].args.kind = <<"z">>
        /\ frame[u].args.term = <<"k", " ", "s">>

(* C9: when find calls of different threads overlap, each call's GET
   carries the token granted to that call, each call returns the body of
   its own search response, and the credentials stay as constructed. *)
C9_CallsDoNotInterfere ==
    /\ CredentialsKept
    /\ \A t, u \in Threads :
          (t # u /\ SearchIssued(frame[t]) /\ frame[u].op # "none") =>
             /\ frame[t].reqs[2].auth = BearerHeader(Granted(frame[t].tokenResp))
             /\ (Granted(frame[t].tokenResp) # Granted(frame[u].tokenResp)
                    /\ SearchIssued(frame[u]))
                   => frame[t].reqs[2].auth # frame[u].reqs[2].auth
             /\ frame[t].pc = "done" => frame[t].result = frame[t].searchResp.json
             /\ frame[t].reqs[1] = TokenRequest(ctor.app_id, ctor.app_secret)

C9_Witness ==
    /\ frame[1].op = "find" /\ frame[1].pc = "search_wait"
    /\ frame[2].op = "find" /\ frame[2].pc = "search_wait"
    /\ frame[1].token = PyStr(T1)
    /\ frame[2].token = PyStr(T2)

TokenStageFailed(f) ==
    /\ f.op = "find" /\ f.pc = "raised" /\ f.stage = "token"
    /\ f.exc \in {"ConnectionError", "JSONDecodeError"}

(* C10: a find call whose token request fails in transport or returns a
   body that is not JSON ends with that failure raised, has issued its one
   POST and no GET, leaves the credentials as constructed, and the next
   call of that thread begins with a token request of its own. *)
C10_TokenFailurePropagates ==
    /\ [](\A t \in Threads :
            /\ (frame[t].op = "find" /\ frame[t].pc = "token_wait") => frame[t].exc = ""
            /\ (frame[t].op = "find" /\ TokenReceived(frame[t])
                  /\ frame[t].tokenResp.json.kind = "invalid") => TokenStageFailed(frame[t])
            /\ TokenStageFailed(frame[t]) =>
                  /\ Len(frame[t].reqs) = 1
                  /\ frame[t].reqs[1].method = "POST"
                  /\ frame[t].result = NoJson
                  /\ CredentialsKept)
    /\ [][\A t \in Threads :
            /\ (frame[t].op = "find" /\ frame[t].pc = "token_wait"
                  /\ frame'[t].pc # "token_wait" /\ ~TokenReceived(frame'[t]))
                  => (TokenStageFailed(frame'[t]) /\ frame'[t].exc = "ConnectionError")
            /\ (TokenStageFailed(frame[t]) /\ frame'[t] # frame[t]) =>
                  /\ frame'[t].pc = "token_wait"
                  /\ frame'[t].reqs = <<TokenRequest(ctor.app_id, ctor.app_secret)>>
                  /\ posts' = posts + 1]_vars

C10_Witness ==
    \E t, u \in Threads :
        /\ TokenStageFailed(frame[t]) /\ frame[t].exc = "ConnectionError"
        /\ TokenStageFailed(frame[u]) /\ frame[u].exc = "JSONDecodeError"
        /\ ncalls >= 3

====
